---- MODULE Spec2Model ----
(***************************************************************************)
(* TaskCircuit backend (src/server.js, src/prisma/schema.prisma).          *)
(*                                                                         *)
(* The store (users, boards, tasks) is the MySQL database reached through  *)
(* the Prisma client.  Every route handler is a sequence of steps, one per *)
(* awaited store operation: the local computation of a handler is folded   *)
(* into the store operation that follows it, and handlers of different     *)
(* requests interleave between their steps.                                *)
(***************************************************************************)
EXTENDS Integers, Sequences, FiniteSets, TLC

VARIABLES users, boards, tasks, ids, now, pend, resp

vars == <<users, boards, tasks, ids, now, pend, resp>>

(***************************************************************************)
(* Bounds of the model.                                                    *)
(***************************************************************************)
Procs == {1, 2}
Emails == {1, 2}
GoogleIds == {1, 2}

(***************************************************************************)
(* JavaScript values absent from a request body or null in the store.      *)
(***************************************************************************)
NoEmail == 0
NoGoogleId == 0
NoUser == 0
NoBoard == 0
NoTask == 0
Undefined == "undefined"
Null == "null"

(***************************************************************************)
(* Passwords are sequences of characters; the alphabet of the model.       *)
(***************************************************************************)
UpperChars == {"P", "Q"}
LowerChars == {"a", "s", "w", "o", "r", "d"}
DigitChars == {"1", "2"}

NoPassword == <<>>
PwGood == <<"P", "a", "s", "s", "w", "o", "r", "1">>
PwOther == <<"Q", "a", "s", "s", "w", "o", "r", "2">>
PwShort == <<"P", "a", "s", "1">>
PwNoUpper == <<"p", "a", "s", "s", "w", "o", "r", "1">>
PwNoLower == <<"P", "Q", "P", "Q", "P", "Q", "P", "1">>
PwNoDigit == <<"P", "a", "s", "s", "w", "o", "r", "d">>
SignupPasswords == {NoPassword, PwGood, PwShort, PwNoUpper, PwNoLower, PwNoDigit}
LoginPasswords == {NoPassword, PwGood, PwOther}

HasChar(pw, cs) == \E i \in 1..Len(pw) : pw[i] \in cs

\* bcrypt: a salted one-way hash, and its verification
SALT_ROUNDS == 10
EmptyHash == <<>>
Hash(pw) == <<"$2b$", SALT_ROUNDS>> \o pw
Compare(pw, h) == Len(h) > 0 /\ h = Hash(pw)

(***************************************************************************)
(* Session tokens (jsonwebtoken).  A token carries its payload, the secret *)
(* it was signed with and its expiry.                                      *)
(***************************************************************************)
TokenTTL == 1
JWT_SECRET == "secret"
NoToken == [userId |-> NoUser, email |-> NoEmail, key |-> "", exp |-> 0]
Sign(uid, email, t) == [userId |-> uid, email |-> email, key |-> JWT_SECRET, exp |-> t + TokenTTL]

(***************************************************************************)
(* The store: records of the three models of schema.prisma.                *)
(***************************************************************************)
UserByEmail(e) == {u \in users : u.email = e}
UserByGoogleId(g) == {u \in users : u.googleId = g}

UserUniqueOkNoIndex(us, email, gid) == TRUE

\* the @unique indexes of model User (NULL googleIds never collide)
UserUniqueOk(us, email, gid) ==
    /\ \A u \in us : u.email # email
    /\ gid # NoGoogleId => \A u \in us : u.googleId # gid

NewUser(email, hash, gid) ==
    [id |-> ids.user, email |-> email, passwordHash |-> hash, googleId |-> gid]

(***************************************************************************)
(* Requests in flight (one record per handler that awaits the store) and   *)
(* the event of the last step: the request it served and, once the handler *)
(* has answered, the response (code 0: no response sent yet).              *)
(***************************************************************************)
NoHeader == [kind |-> "none", token |-> NoToken]

\* a progress value of a body that has none, and a body that has no field
PUndefined == [k |-> "undefined", n |-> 0, s |-> <<>>]
NoBody ==
    [title |-> Undefined, description |-> Undefined, status |-> Undefined,
     startDate |-> Undefined, estimatedFinishDate |-> Undefined,
     reminderDateTime |-> Undefined, progress |-> PUndefined]

\* updateData of PUT /api/tasks/:taskId with no key set (progress: -1 for no key)
AbsentProgress == -1
NoData ==
    [title |-> Undefined, description |-> Undefined, status |-> Undefined,
     progress |-> AbsentProgress, startDate |-> Undefined,
     estimatedFinishDate |-> Undefined, reminderDateTime |-> Undefined]

Idle ==
    [pc |-> "idle", uid |-> NoUser, email |-> NoEmail, password |-> NoPassword,
     gid |-> NoGoogleId, found |-> NoUser, bid |-> NoBoard, tid |-> NoTask,
     name |-> Undefined, data |-> NoData, note |-> "", seen |-> {}]

\* a new request is served by the first handler slot that is free
FirstIdle(p) == pend[p].pc = "idle" /\ \A q \in Procs : q < p => pend[q].pc # "idle"

NoResp ==
    [op |-> "none", code |-> 0, uid |-> NoUser, token |-> NoToken,
     email |-> NoEmail, gid |-> NoGoogleId, err |-> "", header |-> NoHeader,
     password |-> NoPassword, bid |-> NoBoard, tid |-> NoTask, bids |-> {},
     tids |-> {}, step |-> 0, name |-> Undefined, body |-> NoBody]

Reply(op, code) == [NoResp EXCEPT !.op = op, !.code = code]

Init ==
    /\ users = {}
    /\ boards = {}
    /\ tasks = {}
    /\ ids = [user |-> 1, board |-> 1, task |-> 1]
    /\ now = 0
    /\ pend = [p \in Procs |-> Idle]
    /\ resp = NoResp

(***************************************************************************)
(* POST /api/auth/signup                                                   *)
(***************************************************************************)
PasswordStrong(pw) ==
    /\ Len(pw) >= 8
    /\ HasChar(pw, UpperChars)
    /\ HasChar(pw, LowerChars)
    /\ HasChar(pw, DigitChars)

\* validation and prisma.user.findUnique({ where: { email } })
SignupFind(p, email, password) ==
    /\ pend[p].pc = "idle"
    /\ IF email = NoEmail \/ password = NoPassword \/ ~PasswordStrong(password)
       THEN /\ resp' = [Reply("signup", 400) EXCEPT !.email = email]
            /\ pend' = pend
       ELSE IF UserByEmail(email) # {}
       THEN /\ resp' = [Reply("signup", 400) EXCEPT !.email = email, !.err = "in-use"]
            /\ pend' = pend
       ELSE /\ resp' = NoResp
            /\ pend' = [pend EXCEPT ![p] = [Idle EXCEPT !.pc = "signup_create",
                                             !.email = email, !.password = password]]
    /\ UNCHANGED <<users, boards, tasks, ids, now>>

\* bcrypt.hash and prisma.user.create({ data: { email, passwordHash } })
SignupCreate(p) ==
    /\ pend[p].pc = "signup_create"
    /\ LET r == pend[p]
           u == NewUser(r.email, Hash(r.password), NoGoogleId)
       IN IF UserUniqueOk(users, u.email, u.googleId)
          THEN /\ users' = users \cup {u}
               /\ ids' = [ids EXCEPT !.user = @ + 1]
               /\ resp' = [Reply("signup", 201) EXCEPT !.email = r.email, !.uid = u.id]
          ELSE /\ resp' = [Reply("signup", 500) EXCEPT !.email = r.email]
               /\ UNCHANGED <<users, ids>>
    /\ pend' = [pend EXCEPT ![p] = Idle]
    /\ UNCHANGED <<boards, tasks, now>>

(***************************************************************************)
(* POST /api/auth/login                                                    *)
(***************************************************************************)
LoginEmptyHashPasses(p, email, password) ==
    /\ pend[p].pc = "idle"
    /\ IF email = NoEmail \/ password = NoPassword
       THEN resp' = [Reply("login", 400) EXCEPT !.email = email, !.password = password]
       ELSE IF UserByEmail(email) = {}
       THEN resp' = [Reply("login", 401) EXCEPT !.email = email, !.password = password]
       ELSE LET user == CHOOSE u \in UserByEmail(email) : TRUE
            IN IF user.passwordHash # EmptyHash /\ ~Compare(password, user.passwordHash)
               THEN resp' = [Reply("login", 401) EXCEPT !.email = email,
                               !.password = password]
               ELSE resp' = [Reply("login", 200) EXCEPT !.email = email,
                               !.password = password, !.uid = user.id,
                               !.token = Sign(user.id, user.email, now)]
    /\ UNCHANGED <<users, boards, tasks, ids, now, pend>>

Login(p, email, password) ==
    /\ pend[p].pc = "idle"
    /\ IF email = NoEmail \/ password = NoPassword
       THEN resp' = [Reply("login", 400) EXCEPT !.email = email, !.password = password]
       ELSE IF \A u \in UserByEmail(email) : u.passwordHash = EmptyHash
       THEN resp' = [Reply("login", 401) EXCEPT !.email = email, !.password = password,
                       !.err = "use-google"]
       ELSE LET user == CHOOSE u \in UserByEmail(email) : TRUE
            IN IF ~Compare(password, user.passwordHash)
               THEN resp' = [Reply("login", 401) EXCEPT !.email = email,
                               !.password = password]
                       ELSE LET token == Sign(user.id, user.email, now)
                    IN resp' = [Reply("login", 200) EXCEPT !.email = email,
                                  !.password = password, !.uid = user.id,
                                  !.token = token]
    /\ UNCHANGED <<users, boards, tasks, ids, now, pend>>

(***************************************************************************)
(* GoogleStrategy verify callback and GET /api/auth/google/callback        *)
(***************************************************************************)
\* done(null, user): the route signs a token and redirects to the frontend
GoogleDone(p, user, email, gid) ==
    LET token == Sign(user.id, user.email, now)
    IN resp' = [Reply("google", 302) EXCEPT !.uid = user.id, !.token = token,
                  !.email = email, !.gid = gid]

\* done(error, null)
GoogleError(p, email, gid, err) ==
    resp' = [Reply("google", 500) EXCEPT !.email = email, !.gid = gid, !.err = err]

\* prisma.user.findUnique({ where: { googleId: profile.id } })
GoogleFindId(p, gid, email) ==
    /\ pend[p].pc = "idle"
    /\ IF UserByGoogleId(gid) # {}
       THEN /\ GoogleDone(p, CHOOSE u \in UserByGoogleId(gid) : TRUE, email, gid)
            /\ pend' = pend
       ELSE IF email = NoEmail
       THEN /\ GoogleError(p, email, gid, "no-email")
            /\ pend' = pend
       ELSE /\ resp' = NoResp
            /\ pend' = [pend EXCEPT ![p] = [Idle EXCEPT !.pc = "google_email",
                                             !.email = email, !.gid = gid,
                                             !.seen = users]]
    /\ UNCHANGED <<users, boards, tasks, ids, now>>

GoogleFindEmailMisses(p) ==
    /\ pend[p].pc = "google_email"
    /\ pend' = [pend EXCEPT ![p].pc = "google_write", ![p].found = NoUser]
    /\ resp' = NoResp
    /\ UNCHANGED <<users, boards, tasks, ids, now>>

\* prisma.user.findUnique({ where: { email: email } })
GoogleFindEmail(p) ==
    /\ pend[p].pc = "google_email"
    /\ LET found == IF UserByEmail(pend[p].email) = {} THEN NoUser
                    ELSE (CHOOSE u \in UserByEmail(pend[p].email) : TRUE).id
       IN pend' = [pend EXCEPT ![p].pc = "google_write", ![p].found = found]
    /\ resp' = NoResp
    /\ UNCHANGED <<users, boards, tasks, ids, now>>

\* prisma.user.update({ where: { email }, data: { googleId } }) or
\* prisma.user.create({ data: { googleId, email, passwordHash: '' } })
GoogleWrite(p) ==
    /\ pend[p].pc = "google_write"
    /\ LET r == pend[p]
       IN IF r.found # NoUser
          THEN LET old == CHOOSE u \in UserByEmail(r.email) : TRUE
                   upd == [old EXCEPT !.googleId = r.gid]
               IN IF UserUniqueOk(users \ {old}, upd.email, upd.googleId)
                  THEN /\ users' = (users \ {old}) \cup {upd}
                       /\ ids' = ids
                       /\ GoogleDone(p, upd, r.email, r.gid)
                  ELSE /\ UNCHANGED <<users, ids>>
                       /\ GoogleError(p, r.email, r.gid, "store")
          ELSE LET u == NewUser(r.email, EmptyHash, r.gid)
               IN IF UserUniqueOk(users, u.email, u.googleId)
                  THEN /\ users' = users \cup {u}
                       /\ ids' = [ids EXCEPT !.user = @ + 1]
                       /\ GoogleDone(p, u, r.email, r.gid)
                  ELSE /\ UNCHANGED <<users, ids>>
                       /\ GoogleError(p, r.email, r.gid, "store")
    /\ pend' = [pend EXCEPT ![p] = Idle]
    /\ UNCHANGED <<boards, tasks, now>>

NextAuth ==
    \E p \in Procs :
        \/ /\ FirstIdle(p)
           /\ \E e \in Emails \cup {NoEmail} :
                \/ \E pw \in SignupPasswords : SignupFind(p, e, pw)
                \/ \E pw \in LoginPasswords : Login(p, e, pw)
                \/ \E g \in GoogleIds : GoogleFindId(p, g, e)
        \/ SignupCreate(p)
        \/ GoogleFindEmail(p)
        \/ GoogleWrite(p)

SpecAuth == Init /\ [][NextAuth]_vars

(***************************************************************************)
(* authenticateToken: the Authorization header of a request is absent,     *)
(* carries a scheme without a token, or carries a token.                   *)
(***************************************************************************)
SchemeOnly == [kind |-> "scheme", token |-> NoToken]
Bearer(token) == [kind |-> "bearer", token |-> token]
Forged(token) == [token EXCEPT !.key = "guess"]

\* jwt.verify: the signature is checked against JWT_SECRET, then the expiry
Verified(token) == token.key = JWT_SECRET /\ now < token.exp

AuthenticateTokenNoExpiry(header) ==
    IF header.kind # "bearer" THEN 401
    ELSE IF header.token.key # JWT_SECRET THEN 403
    ELSE 0

\* 0: next() is called
AuthenticateToken(header) ==
    IF header.kind # "bearer" THEN 401
    ELSE IF ~Verified(header.token) THEN 403
    ELSE 0

\* authenticateToken, then the handler's own `if (!userId) return res.sendStatus(401)`
Gate(header) ==
    IF AuthenticateToken(header) # 0 THEN AuthenticateToken(header)
    ELSE IF header.token.userId = NoUser THEN 401
    ELSE 0

Rejected(op, header, bid, tid) ==
    /\ resp' = [Reply(op, Gate(header)) EXCEPT !.header = header, !.bid = bid, !.tid = tid,
                                               !.step = 1]
    /\ UNCHANGED <<users, boards, tasks, ids, now, pend>>

\* a response of a handler that passed the gate
Answer(op, code, header, bid, tid) ==
    [Reply(op, code) EXCEPT !.header = header, !.uid = header.token.userId,
                            !.bid = bid, !.tid = tid, !.step = 1]

\* the same, of a handler that takes a task body
AnswerTo(body, op, code, header, bid, tid) ==
    [Answer(op, code, header, bid, tid) EXCEPT !.body = body]

\* a response of a later step of a handler
Finish(op, code, r) ==
    [Reply(op, code) EXCEPT !.uid = r.uid, !.bid = r.bid, !.tid = r.tid, !.err = r.note,
                            !.step = 2]

BoardById(bid) == {b \in boards : b.id = bid}
TaskById(tid) == {t \in tasks : t.id = tid}

(***************************************************************************)
(* Board routes                                                            *)
(***************************************************************************)
\* GET /api/boards
GetBoards(p, header) ==
    /\ pend[p].pc = "idle"
    /\ IF Gate(header) # 0 THEN Rejected("getboards", header, NoBoard, NoTask)
       ELSE /\ resp' = [Answer("getboards", 200, header, NoBoard, NoTask) EXCEPT
                          !.bids = {b.id : b \in {x \in boards : x.userId = header.token.userId}}]
            /\ UNCHANGED <<users, boards, tasks, ids, now, pend>>

\* POST /api/boards
PostBoard(p, header, name) ==
    /\ pend[p].pc = "idle"
    /\ IF Gate(header) # 0 THEN Rejected("postboard", header, NoBoard, NoTask)
       ELSE IF name = Undefined
       THEN /\ resp' = Answer("postboard", 400, header, NoBoard, NoTask)
            /\ UNCHANGED <<users, boards, tasks, ids, now, pend>>
       ELSE /\ boards' = boards \cup {[id |-> ids.board, name |-> name,
                                       userId |-> header.token.userId]}
            /\ ids' = [ids EXCEPT !.board = @ + 1]
            /\ resp' = [Answer("postboard", 201, header, ids.board, NoTask) EXCEPT
                          !.bids = {ids.board}]
            /\ UNCHANGED <<users, tasks, now, pend>>

BoardOwnedByAnyone(bid, uid) == BoardById(bid) # {}

\* the lookup and ownership check of PUT and DELETE /api/boards/:boardId
BoardOwned(bid, uid) == \E b \in BoardById(bid) : b.userId = uid

\* PUT /api/boards/:boardId: prisma.board.findUnique
PutBoardFind(p, header, bid, name) ==
    /\ pend[p].pc = "idle"
    /\ IF Gate(header) # 0 THEN Rejected("putboard", header, bid, NoTask)
       ELSE IF name = Undefined
       THEN /\ resp' = [Answer("putboard", 400, header, bid, NoTask) EXCEPT !.name = name]
            /\ UNCHANGED <<users, boards, tasks, ids, now, pend>>
       ELSE IF ~BoardOwned(bid, header.token.userId)
       THEN /\ resp' = [Answer("putboard", 404, header, bid, NoTask) EXCEPT !.name = name]
            /\ UNCHANGED <<users, boards, tasks, ids, now, pend>>
       ELSE /\ resp' = [Answer("putboard", 0, header, bid, NoTask) EXCEPT !.name = name]
            /\ pend' = [pend EXCEPT ![p] = [Idle EXCEPT !.pc = "putboard_update",
                            !.uid = header.token.userId, !.bid = bid, !.name = name]]
            /\ UNCHANGED <<users, boards, tasks, ids, now>>

\* PUT /api/boards/:boardId: prisma.board.update
PutBoardUpdate(p) ==
    /\ pend[p].pc = "putboard_update"
    /\ LET r == pend[p]
       IN IF BoardById(r.bid) = {}
          THEN /\ resp' = Finish("putboard", 500, r)
               /\ boards' = boards
          ELSE /\ boards' = {IF b.id = r.bid THEN [b EXCEPT !.name = r.name] ELSE b :
                               b \in boards}
               /\ resp' = Finish("putboard", 200, r)
    /\ pend' = [pend EXCEPT ![p] = Idle]
    /\ UNCHANGED <<users, tasks, ids, now>>

\* DELETE /api/boards/:boardId: prisma.board.findUnique
DeleteBoardFind(p, header, bid) ==
    /\ pend[p].pc = "idle"
    /\ IF Gate(header) # 0 THEN Rejected("deleteboard", header, bid, NoTask)
       ELSE IF ~BoardOwned(bid, header.token.userId)
       THEN /\ resp' = Answer("deleteboard", 404, header, bid, NoTask)
            /\ UNCHANGED <<users, boards, tasks, ids, now, pend>>
       ELSE /\ resp' = Answer("deleteboard", 0, header, bid, NoTask)
            /\ pend' = [pend EXCEPT ![p] = [Idle EXCEPT !.pc = "deleteboard_delete",
                            !.uid = header.token.userId, !.bid = bid]]
            /\ UNCHANGED <<users, boards, tasks, ids, now>>

TasksAfterBoardDeleteNoCascade(bid) == tasks

\* onDelete: Cascade of Task.board, emulated by the client (relationMode = "prisma")
TasksAfterBoardDelete(bid) == {t \in tasks : t.boardId # bid}

\* DELETE /api/boards/:boardId: prisma.board.delete
DeleteBoardDelete(p) ==
    /\ pend[p].pc = "deleteboard_delete"
    /\ LET r == pend[p]
       IN IF BoardById(r.bid) = {}
          THEN /\ resp' = Finish("deleteboard", 500, r)
               /\ UNCHANGED <<boards, tasks>>
          ELSE /\ boards' = boards \ BoardById(r.bid)
               /\ tasks' = TasksAfterBoardDelete(r.bid)
               /\ resp' = Finish("deleteboard", 204, r)
    /\ pend' = [pend EXCEPT ![p] = Idle]
    /\ UNCHANGED <<users, ids, now>>

\* prisma.user.delete with onDelete: Cascade of Board.user and Task.board
\* (no route of server.js calls it)
DeleteUser(uid) ==
    /\ \E u \in users : u.id = uid
    /\ users' = {u \in users : u.id # uid}
    /\ boards' = {b \in boards : b.userId # uid}
    /\ tasks' = {t \in tasks : \A b \in boards : b.userId = uid => t.boardId # b.id}
    /\ resp' = [Reply("deleteuser", 0) EXCEPT !.uid = uid]
    /\ UNCHANGED <<ids, now, pend>>

(***************************************************************************)
(* Values of a task body.  A progress value of a JSON body is absent,      *)
(* null, a number (kept in tenths, so that 60.5 is a value) or a string.   *)
(***************************************************************************)
Falsy(x) == x \in {Undefined, Null, ""}

PNull == [k |-> "null", n |-> 0, s |-> <<>>]
PNumber(tenths) == [k |-> "number", n |-> tenths, s |-> <<>>]
PString(chars) == [k |-> "string", n |-> 0, s |-> chars]

NaN == [nan |-> TRUE, n |-> 0]
Int10(n) == [nan |-> FALSE, n |-> n]

DigitValue ==
    ("0" :> 0) @@ ("1" :> 1) @@ ("2" :> 2) @@ ("3" :> 3) @@ ("4" :> 4) @@
    ("5" :> 5) @@ ("6" :> 6) @@ ("7" :> 7) @@ ("8" :> 8) @@ ("9" :> 9)

\* the digits of s from position i on: their count and value
RECURSIVE Digits(_, _, _, _)
Digits(s, i, count, acc) ==
    IF i <= Len(s) /\ s[i] \in DOMAIN DigitValue
    THEN Digits(s, i + 1, count + 1, 10 * acc + DigitValue[s[i]])
    ELSE [count |-> count, value |-> acc]

RECURSIVE SkipSpaces(_, _)
SkipSpaces(s, i) == IF i <= Len(s) /\ s[i] = " " THEN SkipSpaces(s, i + 1) ELSE i

\* parseInt(string, 10): leading blanks, a sign, then digits up to the first other character
ParseIntString(s) ==
    LET i == SkipSpaces(s, 1)
        signed == i <= Len(s) /\ s[i] \in {"-", "+"}
        d == Digits(s, IF signed THEN i + 1 ELSE i, 0, 0)
    IN IF d.count = 0 THEN NaN
       ELSE IF signed /\ s[i] = "-" THEN Int10(0 - d.value) ELSE Int10(d.value)

\* parseInt(value, 10) of a body value: the value is first converted to a string
ParseInt(v) ==
    IF v.k = "number"
    THEN IF v.n >= 0 THEN Int10(v.n \div 10) ELSE Int10(0 - ((0 - v.n) \div 10))
    ELSE IF v.k = "string" THEN ParseIntString(v.s)
    ELSE NaN

InRange(r) == ~r.nan /\ r.n >= 0 /\ r.n <= 100

ValidStatuses == {"todo", "inprogress", "done"}

\* new Date(x), or null
ToDate(x) == IF Falsy(x) THEN Null ELSE "Date(" \o x \o ")"

\* Object.keys(updateData).length === 0
NoKeys(d) == d = NoData

(***************************************************************************)
(* Task routes                                                             *)
(***************************************************************************)
\* POST: let taskProgress = progress ?? 0, then the status rules
CreateProgress(taskStatus, progress) ==
    LET taskProgress == IF progress.k \in {"undefined", "null"} THEN PNumber(0) ELSE progress
    IN IF taskStatus = "done" THEN 100
       ELSE IF taskStatus = "todo" THEN 0
       ELSE IF InRange(ParseInt(taskProgress)) THEN ParseInt(taskProgress).n ELSE 0

\* the data of prisma.task.create; a field left undefined is stored as null
CreateData(body) ==
    LET taskStatus == IF Falsy(body.status) THEN "todo" ELSE body.status
    IN [title |-> body.title,
        description |-> IF body.description = Undefined THEN Null ELSE body.description,
        status |-> taskStatus,
        progress |-> CreateProgress(taskStatus, body.progress),
        startDate |-> ToDate(body.startDate),
        estimatedFinishDate |-> ToDate(body.estimatedFinishDate),
        reminderDateTime |-> ToDate(body.reminderDateTime)]

GetTasksFindOneCheck(p, header, bid) ==
    /\ pend[p].pc = "idle"
    /\ IF Gate(header) # 0 THEN Rejected("gettasks", header, bid, NoTask)
       ELSE IF ~BoardOwned(bid, header.token.userId)
       THEN /\ resp' = Answer("gettasks", 404, header, bid, NoTask)
            /\ UNCHANGED <<users, boards, tasks, ids, now, pend>>
       ELSE /\ resp' = Answer("gettasks", 0, header, bid, NoTask)
            /\ pend' = [pend EXCEPT ![p] = [Idle EXCEPT !.pc = "gettasks_list",
                            !.uid = header.token.userId, !.bid = bid]]
            /\ UNCHANGED <<users, boards, tasks, ids, now>>

\* GET /api/boards/:boardId/tasks: prisma.board.findUnique
GetTasksFind(p, header, bid) ==
    /\ pend[p].pc = "idle"
    /\ IF Gate(header) # 0 THEN Rejected("gettasks", header, bid, NoTask)
       ELSE IF BoardById(bid) = {}
       THEN /\ resp' = Answer("gettasks", 404, header, bid, NoTask)
            /\ UNCHANGED <<users, boards, tasks, ids, now, pend>>
       ELSE IF ~BoardOwned(bid, header.token.userId)
       THEN /\ resp' = Answer("gettasks", 403, header, bid, NoTask)
            /\ UNCHANGED <<users, boards, tasks, ids, now, pend>>
       ELSE /\ resp' = Answer("gettasks", 0, header, bid, NoTask)
            /\ pend' = [pend EXCEPT ![p] = [Idle EXCEPT !.pc = "gettasks_list",
                            !.uid = header.token.userId, !.bid = bid]]
            /\ UNCHANGED <<users, boards, tasks, ids, now>>

\* GET /api/boards/:boardId/tasks: prisma.task.findMany
GetTasksList(p) ==
    /\ pend[p].pc = "gettasks_list"
    /\ resp' = [Finish("gettasks", 200, pend[p]) EXCEPT
                  !.tids = {t.id : t \in {x \in tasks : x.boardId = pend[p].bid}}]
    /\ pend' = [pend EXCEPT ![p] = Idle]
    /\ UNCHANGED <<users, boards, tasks, ids, now>>

\* POST /api/boards/:boardId/tasks: validation and prisma.board.findUnique
PostTaskFind(p, header, bid, body) ==
    /\ pend[p].pc = "idle"
    /\ IF Gate(header) # 0 THEN Rejected("posttask", header, bid, NoTask)
       ELSE IF Falsy(body.title) \/ CreateData(body).status \notin ValidStatuses
       THEN /\ resp' = AnswerTo(body, "posttask", 400, header, bid, NoTask)
            /\ UNCHANGED <<users, boards, tasks, ids, now, pend>>
       ELSE IF BoardById(bid) = {}
       THEN /\ resp' = AnswerTo(body, "posttask", 404, header, bid, NoTask)
            /\ UNCHANGED <<users, boards, tasks, ids, now, pend>>
       ELSE IF ~BoardOwned(bid, header.token.userId)
       THEN /\ resp' = AnswerTo(body, "posttask", 403, header, bid, NoTask)
            /\ UNCHANGED <<users, boards, tasks, ids, now, pend>>
       ELSE /\ resp' = AnswerTo(body, "posttask", 0, header, bid, NoTask)
            /\ pend' = [pend EXCEPT ![p] = [Idle EXCEPT !.pc = "posttask_create",
                            !.uid = header.token.userId, !.bid = bid,
                            !.data = CreateData(body)]]
            /\ UNCHANGED <<users, boards, tasks, ids, now>>

\* a row of model Task
TaskRow(tid, bid, d) ==
    [id |-> tid, boardId |-> bid, title |-> d.title, description |-> d.description,
     status |-> d.status, progress |-> d.progress, startDate |-> d.startDate,
     estimatedFinishDate |-> d.estimatedFinishDate,
     reminderDateTime |-> d.reminderDateTime]

\* POST /api/boards/:boardId/tasks: prisma.task.create (relationMode = "prisma": the
\* database holds no foreign key, the board is not looked up again)
PostTaskCreate(p) ==
    /\ pend[p].pc = "posttask_create"
    /\ LET r == pend[p]
       IN /\ tasks' = tasks \cup {TaskRow(ids.task, r.bid, r.data)}
          /\ resp' = [Finish("posttask", 201, [r EXCEPT !.tid = ids.task]) EXCEPT
                        !.tids = {ids.task}]
    /\ ids' = [ids EXCEPT !.task = @ + 1]
    /\ pend' = [pend EXCEPT ![p] = Idle]
    /\ UNCHANGED <<users, boards, now>>

UpdateStatusProgressDefault0(body) ==
    IF body.status # Undefined
    THEN IF body.status \notin ValidStatuses THEN [code |-> 400, status |-> Undefined,
                                                  progress |-> AbsentProgress]
         ELSE [code |-> 0, status |-> body.status,
               progress |-> IF body.status = "done" THEN 100
                            ELSE IF body.status = "todo" \/ body.progress.k = "undefined" THEN 0
                            ELSE IF InRange(ParseInt(body.progress))
                                 THEN ParseInt(body.progress).n ELSE 0]
    ELSE IF body.progress.k # "undefined"
    THEN IF ~InRange(ParseInt(body.progress))
         THEN [code |-> 400, status |-> Undefined, progress |-> AbsentProgress]
         ELSE [code |-> 0, status |-> Undefined, progress |-> ParseInt(body.progress).n]
    ELSE [code |-> 0, status |-> Undefined, progress |-> AbsentProgress]

\* PUT: the status and progress keys of updateData (400: the request is refused)
UpdateStatusProgress(body) ==
    IF body.status # Undefined
    THEN IF body.status \notin ValidStatuses THEN [code |-> 400, status |-> Undefined,
                                                  progress |-> AbsentProgress]
         ELSE [code |-> 0, status |-> body.status,
               progress |-> IF body.status = "todo" THEN 0
                            ELSE IF body.status = "done" THEN 100
                            ELSE IF body.progress.k = "undefined" THEN 25
                            ELSE IF InRange(ParseInt(body.progress))
                                 THEN ParseInt(body.progress).n ELSE 25]
    ELSE IF body.progress.k # "undefined"
    THEN IF ~InRange(ParseInt(body.progress))
         THEN [code |-> 400, status |-> Undefined, progress |-> AbsentProgress]
         ELSE [code |-> 0, status |-> Undefined, progress |-> ParseInt(body.progress).n]
    ELSE [code |-> 0, status |-> Undefined, progress |-> AbsentProgress]

\* PUT: updateData as built before the task is read
UpdateData(body) ==
    LET sp == UpdateStatusProgress(body) IN
    [title |-> body.title,
     description |-> body.description,
     status |-> sp.status,
     progress |-> sp.progress,
     startDate |-> IF body.startDate = Undefined THEN Undefined ELSE ToDate(body.startDate),
     estimatedFinishDate |-> IF body.estimatedFinishDate = Undefined THEN Undefined
                             ELSE ToDate(body.estimatedFinishDate),
     reminderDateTime |-> IF body.reminderDateTime = Undefined THEN Undefined
                          ELSE ToDate(body.reminderDateTime)]

\* PUT: a progress without a status is dropped unless the task read is in progress
ProgressDropped(d, task) ==
    d.progress # AbsentProgress /\ d.status = Undefined /\ task.status # "inprogress"

DropProgressNever(d, task) == d

\* delete updateData.progress
DropProgress(d, task) ==
    IF ProgressDropped(d, task) THEN [d EXCEPT !.progress = AbsentProgress] ELSE d

\* PUT /api/tasks/:taskId: validation and prisma.task.findUnique with its board
PutTaskFind(p, header, tid, body) ==
    /\ pend[p].pc = "idle"
    /\ IF Gate(header) # 0 THEN Rejected("puttask", header, NoBoard, tid)
       ELSE IF UpdateStatusProgress(body).code = 400 \/ NoKeys(UpdateData(body))
       THEN /\ resp' = AnswerTo(body, "puttask", 400, header, NoBoard, tid)
            /\ UNCHANGED <<users, boards, tasks, ids, now, pend>>
       ELSE IF TaskById(tid) = {}
       THEN /\ resp' = AnswerTo(body, "puttask", 404, header, NoBoard, tid)
            /\ UNCHANGED <<users, boards, tasks, ids, now, pend>>
       ELSE LET task == CHOOSE t \in TaskById(tid) : TRUE
                d == DropProgress(UpdateData(body), task)
            IN IF BoardById(task.boardId) = {}
               THEN /\ resp' = AnswerTo(body, "puttask", 500, header, task.boardId, tid)
                    /\ UNCHANGED <<users, boards, tasks, ids, now, pend>>
               ELSE IF ~BoardOwned(task.boardId, header.token.userId)
               THEN /\ resp' = AnswerTo(body, "puttask", 403, header, task.boardId, tid)
                    /\ UNCHANGED <<users, boards, tasks, ids, now, pend>>
               ELSE IF NoKeys(d)
               THEN /\ resp' = [AnswerTo(body, "puttask", 400, header, task.boardId, tid) EXCEPT
                                  !.err = "progress-dropped"]
                    /\ UNCHANGED <<users, boards, tasks, ids, now, pend>>
               ELSE /\ resp' = AnswerTo(body, "puttask", 0, header, task.boardId, tid)
                    /\ pend' = [pend EXCEPT ![p] = [Idle EXCEPT !.pc = "puttask_update",
                                    !.uid = header.token.userId, !.bid = task.boardId,
                                    !.tid = tid, !.data = d,
                                    !.note = IF ProgressDropped(UpdateData(body), task)
                                             THEN "progress-ignored" ELSE ""]]
                    /\ UNCHANGED <<users, boards, tasks, ids, now>>

\* prisma.task.update({ data }): the keys of data replace the columns
ApplyUpdate(t, d) ==
    [t EXCEPT
       !.title = IF d.title = Undefined THEN @ ELSE d.title,
       !.description = IF d.description = Undefined THEN @ ELSE d.description,
       !.status = IF d.status = Undefined THEN @ ELSE d.status,
       !.progress = IF d.progress = AbsentProgress THEN @ ELSE d.progress,
       !.startDate = IF d.startDate = Undefined THEN @ ELSE d.startDate,
       !.estimatedFinishDate = IF d.estimatedFinishDate = Undefined THEN @
                               ELSE d.estimatedFinishDate,
       !.reminderDateTime = IF d.reminderDateTime = Undefined THEN @
                            ELSE d.reminderDateTime]

\* PUT /api/tasks/:taskId: prisma.task.update
PutTaskUpdate(p) ==
    /\ pend[p].pc = "puttask_update"
    /\ LET r == pend[p]
       IN IF TaskById(r.tid) = {}
          THEN /\ resp' = Finish("puttask", 500, r)
               /\ tasks' = tasks
          ELSE /\ tasks' = {IF t.id = r.tid THEN ApplyUpdate(t, r.data) ELSE t : t \in tasks}
               /\ resp' = [Finish("puttask", 200, r) EXCEPT !.tids = {r.tid}]
    /\ pend' = [pend EXCEPT ![p] = Idle]
    /\ UNCHANGED <<users, boards, ids, now>>

\* DELETE /api/tasks/:taskId: prisma.task.findUnique with its board
DeleteTaskFind(p, header, tid) ==
    /\ pend[p].pc = "idle"
    /\ IF Gate(header) # 0 THEN Rejected("deletetask", header, NoBoard, tid)
       ELSE IF TaskById(tid) = {}
       THEN /\ resp' = Answer("deletetask", 404, header, NoBoard, tid)
            /\ UNCHANGED <<users, boards, tasks, ids, now, pend>>
       ELSE LET task == CHOOSE t \in TaskById(tid) : TRUE
            IN IF BoardById(task.boardId) = {}
               THEN /\ resp' = Answer("deletetask", 500, header, task.boardId, tid)
                    /\ UNCHANGED <<users, boards, tasks, ids, now, pend>>
               ELSE IF ~BoardOwned(task.boardId, header.token.userId)
               THEN /\ resp' = Answer("deletetask", 403, header, task.boardId, tid)
                    /\ UNCHANGED <<users, boards, tasks, ids, now, pend>>
               ELSE /\ resp' = Answer("deletetask", 0, header, task.boardId, tid)
                    /\ pend' = [pend EXCEPT ![p] = [Idle EXCEPT !.pc = "deletetask_delete",
                                    !.uid = header.token.userId, !.bid = task.boardId,
                                    !.tid = tid]]
                    /\ UNCHANGED <<users, boards, tasks, ids, now>>

\* DELETE /api/tasks/:taskId: prisma.task.delete
DeleteTaskDelete(p) ==
    /\ pend[p].pc = "deletetask_delete"
    /\ LET r == pend[p]
       IN IF TaskById(r.tid) = {}
          THEN /\ resp' = Finish("deletetask", 500, r)
               /\ tasks' = tasks
          ELSE /\ tasks' = tasks \ TaskById(r.tid)
               /\ resp' = Finish("deletetask", 204, r)
    /\ pend' = [pend EXCEPT ![p] = Idle]
    /\ UNCHANGED <<users, boards, ids, now>>

(***************************************************************************)
(* The board and task routes are explored from a store that signups and    *)
(* Google callbacks have filled: a password account and an account created *)
(* by the Google callback; a token signed at time 0 has expired.           *)
(***************************************************************************)
Alice == [id |-> 1, email |-> 1, passwordHash |-> Hash(PwGood), googleId |-> NoGoogleId]
Bob == [id |-> 2, email |-> 2, passwordHash |-> EmptyHash, googleId |-> 1]

InitStore ==
    /\ users = {Alice, Bob}
    /\ boards = {}
    /\ tasks = {}
    /\ ids = [user |-> 3, board |-> 1, task |-> 1]
    /\ now = TokenTTL
    /\ pend = [p \in Procs |-> Idle]
    /\ resp = NoResp

\* the tokens the server has signed for u
TokensOf(u) == {Sign(u.id, u.email, t) : t \in 0..now}

Owner == Bearer(Sign(Alice.id, Alice.email, TokenTTL))
Headers ==
    {NoHeader, SchemeOnly, Bearer(Forged(Sign(Alice.id, Alice.email, now)))}
        \cup {Bearer(t) : t \in TokensOf(Alice) \cup TokensOf(Bob)}

Body(title, description, status, startDate, progress) ==
    [title |-> title, description |-> description, status |-> status,
     startDate |-> startDate, estimatedFinishDate |-> Undefined,
     reminderDateTime |-> Undefined, progress |-> progress]

Progresses ==
    {PUndefined, PNull, PNumber(600), PNumber(605), PNumber(1500),
     PString(<<"6", "0", "%">>), PString(<<" ", "-", "5">>)}

\* status and progress of a body: every progress with no status and with
\* inprogress; the other statuses overwrite the progress
StatusProgress ==
    {<<s, pr>> : s \in {Undefined, "inprogress"}, pr \in Progresses}
        \cup {<<s, pr>> : s \in {"todo", "done"}, pr \in {PUndefined, PNumber(600)}}
        \cup {<<"archived", PUndefined>>}

CreateBodies ==
    {Body("Buy milk", Undefined, sp[1], Undefined, sp[2]) : sp \in StatusProgress}
        \cup {Body(Undefined, Undefined, Undefined, Undefined, PUndefined),
              Body("Buy milk", "2%", Null, "2025-01-01", PUndefined)}
UpdateBodies ==
    {Body(Undefined, Undefined, sp[1], Undefined, sp[2]) : sp \in StatusProgress}
        \cup {Body("Buy oat milk", Undefined, sp[1], "2025-02-02", sp[2]) :
                sp \in StatusProgress}

\* the tasks created so far and those a handler in flight is about to create
TasksBegun == ids.task - 1 + Cardinality({q \in Procs : pend[q].pc = "posttask_create"})

\* ids a request can name: every id handed out so far, and one that never was
BoardIds == 1..ids.board
TaskIds == 1..ids.task

(***************************************************************************)
(* SpecTasks: the task routes on one board, with every status and progress *)
(* input.                                                                  *)
(***************************************************************************)
MaxStatusTasks == 1

InitTasks ==
    /\ users = {Alice, Bob}
    /\ boards = {[id |-> 1, name |-> "Home", userId |-> Alice.id]}
    /\ tasks = {}
    /\ ids = [user |-> 3, board |-> 2, task |-> 1]
    /\ now = TokenTTL
    /\ pend = [p \in Procs |-> Idle]
    /\ resp = NoResp

NextTasks ==
    \E p \in Procs :
        \/ /\ FirstIdle(p)
           /\ \/ \E b \in CreateBodies :
                    TasksBegun < MaxStatusTasks /\ PostTaskFind(p, Owner, 1, b)
              \/ \E t \in TaskIds, b \in UpdateBodies : PutTaskFind(p, Owner, t, b)
              \/ \E t \in TaskIds : DeleteTaskFind(p, Owner, t)
        \/ PostTaskCreate(p)
        \/ PutTaskUpdate(p)
        \/ DeleteTaskDelete(p)

SpecTasks == InitTasks /\ [][NextTasks]_vars

(***************************************************************************)
(* SpecBoards: every board and task route, requested by both users on      *)
(* every board and task, with few task bodies.                             *)
(***************************************************************************)
MaxBoards == 2
MaxTasks == 1

UserHeaders == {Bearer(Sign(u.id, u.email, TokenTTL)) : u \in {Alice, Bob}}
BoardNames == {Undefined, "Home"}
NewNames == {Undefined, "Work"}
FewCreateBodies ==
    {NoBody, Body("Buy milk", Undefined, Undefined, Undefined, PUndefined)}
FewUpdateBodies ==
    {NoBody, Body(Undefined, Undefined, "done", Undefined, PUndefined)}

NextRoutes(hs, maxBoards, maxTasks) ==
    \E p \in Procs :
        \/ /\ FirstIdle(p)
           /\ \E h \in hs :
                \/ GetBoards(p, h)
                \/ \E n \in BoardNames : ids.board <= maxBoards /\ PostBoard(p, h, n)
                \/ \E b \in BoardIds, n \in NewNames : PutBoardFind(p, h, b, n)
                \/ \E b \in BoardIds : DeleteBoardFind(p, h, b)
                \/ \E b \in BoardIds : GetTasksFind(p, h, b)
                \/ \E b \in BoardIds, body \in FewCreateBodies :
                       TasksBegun < maxTasks /\ PostTaskFind(p, h, b, body)
                \/ \E t \in TaskIds, body \in FewUpdateBodies : PutTaskFind(p, h, t, body)
                \/ \E t \in TaskIds : DeleteTaskFind(p, h, t)
        \/ PutBoardUpdate(p)
        \/ DeleteBoardDelete(p)
        \/ GetTasksList(p)
        \/ PostTaskCreate(p)
        \/ PutTaskUpdate(p)
        \/ DeleteTaskDelete(p)

NextBoards == NextRoutes(UserHeaders, MaxBoards, MaxTasks)

SpecBoards == InitStore /\ [][NextBoards]_vars

(***************************************************************************)
(* SpecGate: every route with every kind of Authorization header.          *)
(***************************************************************************)
GateBoards == 1
GateTasks == 1

NextGate == NextRoutes(Headers, GateBoards, GateTasks)

SpecGate == InitStore /\ [][NextGate]_vars

(***************************************************************************)
(* SpecCascade: creation of boards and tasks, deletion of boards, and the  *)
(* deletion of a user in the store.                                        *)
(***************************************************************************)
CascadeBoards == 2
CascadeTasks == 2

NextCascade ==
    \/ \E p \in Procs :
        \/ /\ FirstIdle(p)
           /\ \E h \in UserHeaders :
                \/ ids.board <= CascadeBoards /\ PostBoard(p, h, "Home")
                \/ \E b \in BoardIds : DeleteBoardFind(p, h, b)
                \/ \E b \in BoardIds :
                       /\ TasksBegun < CascadeTasks
                       /\ PostTaskFind(p, h, b, Body("Buy milk", Undefined, Undefined,
                                                     Undefined, PUndefined))
        \/ DeleteBoardDelete(p)
        \/ PostTaskCreate(p)
    \/ \E u \in {Alice.id, Bob.id} : DeleteUser(u)

SpecCascade == InitStore /\ [][NextCascade]_vars

(***************************************************************************)
(* Properties of the authentication routes (SpecAuth).                     *)
(***************************************************************************)

\* C9: in every reachable state no two users share an email and no two
\* users share a non-null googleId (nor an id), whatever the interleaving
\* of signups and Google callbacks.
C9_UserIdentityUnique ==
    \A u \in users : \A v \in users :
        u # v => /\ u.id # v.id
                 /\ u.email # v.email
                 /\ u.googleId # NoGoogleId => u.googleId # v.googleId

\* a create was refused by a unique index: the lookup of the handler had
\* found no user, a concurrent handler created it first
C9_Witness ==
    /\ resp.code = 500
    /\ resp.op \in {"signup", "google"}
    /\ resp.err # "no-email"
    /\ UserByEmail(resp.email) # {}

\* C5: a login by password on an account whose passwordHash is empty is
\* answered 401 without a token; no step changes the passwordHash of an
\* existing user, and a password account that was linked to a Google
\* identity still logs in with its password.
C5_LoginState ==
    resp.op = "login" /\ resp.password # NoPassword =>
        \A u \in UserByEmail(resp.email) :
            /\ u.passwordHash = EmptyHash =>
                   resp.code = 401 /\ resp.token = NoToken
            /\ u.googleId # NoGoogleId /\ Compare(resp.password, u.passwordHash) =>
                   /\ resp.code = 200
                   /\ resp.token = Sign(u.id, u.email, now)

C5_HashKept ==
    \A u \in users : \E v \in users' : v.id = u.id /\ v.passwordHash = u.passwordHash

\* C5: a login against a user with an empty passwordHash is always answered
\* 401 without a token, and no step changes the passwordHash of an existing
\* user, so a signed-up account that is linked later still logs in.
C5_OAuthOnlyLoginRejected == [](C5_LoginState) /\ [][C5_HashKept]_vars

C5_Witness ==
    /\ resp.op = "login"
    /\ resp.code = 401
    /\ resp.password = PwGood
    /\ \E u \in UserByEmail(resp.email) : u.passwordHash = EmptyHash /\ u.googleId # NoGoogleId

\* C8: the Google verify callback, when no other handler changes the users
\* between its first lookup and its write (seen: the users at its first
\* lookup, kept for this property only): returns the user that
\* has the googleId, else fails without an email, else links the user that
\* has the email, else creates one user with an empty password hash.  The
\* number of users grows, by one, only when no user had the googleId or
\* the email.
C8_Writer(p) == pend[p].pc = "google_write" /\ pend'[p].pc = "idle"

C8_Immediate ==
    (resp'.op = "google" /\ pend' = pend) =>
        /\ users' = users
        /\ IF UserByGoogleId(resp'.gid) # {}
           THEN /\ resp'.code = 302
                /\ \E u \in UserByGoogleId(resp'.gid) :
                       resp'.uid = u.id /\ resp'.token.userId = u.id
           ELSE /\ resp'.email = NoEmail
                /\ resp'.code = 500
                /\ resp'.err = "no-email"
                /\ resp'.token = NoToken

C8_Write ==
    \A p \in Procs :
        LET r == pend[p]
        IN (C8_Writer(p) /\ users = r.seen) =>
            /\ resp'.op = "google" /\ resp'.code = 302
            /\ resp'.gid = r.gid /\ resp'.email = r.email
            /\ IF UserByEmail(r.email) # {}
               THEN \E u \in UserByEmail(r.email) :
                        /\ users' = (users \ {u}) \cup {[u EXCEPT !.googleId = r.gid]}
                        /\ resp'.uid = u.id
               ELSE \E n \in users' \ users :
                        /\ users' = users \cup {n}
                        /\ n.email = r.email
                        /\ n.googleId = r.gid
                        /\ n.passwordHash = EmptyHash
                        /\ \A u \in users : u.id # n.id
                        /\ resp'.uid = n.id

C8_Growth ==
    (resp'.op = "google" \/ \E p \in Procs : pend[p].pc \in {"google_email", "google_write"}
                                             /\ pend'[p] # pend[p]) =>
        \/ Cardinality(users') = Cardinality(users)
        \/ /\ Cardinality(users') = Cardinality(users) + 1
           /\ UserByGoogleId(resp'.gid) = {}
           /\ UserByEmail(resp'.email) = {}

\* C8: the Google callback returns the user with that googleId, else links
\* the googleId to the user with that email, else creates a user with an
\* empty passwordHash; without an email it fails and writes nothing.
C8_LinkOrCreate == [][C8_Immediate /\ C8_Write /\ C8_Growth]_vars

\* a password account was linked to a Google identity
C8_Witness ==
    /\ resp.op = "google"
    /\ resp.code = 302
    /\ \E u \in users : /\ u.id = resp.uid
                        /\ u.googleId = resp.gid
                        /\ u.passwordHash # EmptyHash

(***************************************************************************)
(* Properties of the task status and progress policy (SpecTasks).          *)
(* A step is the first step of a handler (resp'.step = 1: the request, and *)
(* the response when the handler answers at once) or its write (step 2).   *)
(***************************************************************************)
TaskOf(tid) == CHOOSE t \in TaskById(tid) : TRUE
TaskAfter(tid) == CHOOSE t \in {x \in tasks' : x.id = tid} : TRUE

\* the request of this step went on to its write, as handler p
Admitted(p, pc) == pend[p].pc = "idle" /\ pend'[p].pc = pc /\ resp'.code = 0

\* this step is the write of handler p
Writes(p, pc) == pend[p].pc = pc /\ pend'[p].pc = "idle" /\ resp'.step = 2

\* this step is a PUT /api/tasks/:taskId of the owner of a task that exists
OwnPut ==
    /\ resp'.op = "puttask" /\ resp'.step = 1
    /\ TaskById(resp'.tid) # {}
    /\ BoardOwned(TaskOf(resp'.tid).boardId, resp'.uid)

\* C1: every stored task has progress in 0..100, progress 0 when its
\* status is todo and progress 100 when its status is done.
C1_TaskProgressInvariant ==
    \A t \in tasks :
        /\ t.progress >= 0 /\ t.progress <= 100
        /\ t.status = "todo" => t.progress = 0
        /\ t.status = "done" => t.progress = 100

\* C4: a create with no status stores todo and 0; an update to inprogress
\* with no progress stores 25; an update with an integer progress p in
\* 0..100 and no status, on a task read as inprogress, stores p and leaves
\* the status; an update to done stores 100 and an update to todo stores 0,
\* whatever the task held.
C4_Create ==
    /\ (/\ resp'.op = "posttask" /\ resp'.step = 1
        /\ resp'.body.status = Undefined /\ ~Falsy(resp'.body.title)
        /\ BoardOwned(resp'.bid, resp'.uid)) =>
           \E p \in Procs : /\ Admitted(p, "posttask_create")
                            /\ pend'[p].bid = resp'.bid
                            /\ pend'[p].data.status = "todo"
                            /\ pend'[p].data.progress = 0
    /\ \A p \in Procs : Writes(p, "posttask_create") =>
           \E t \in tasks' \ tasks :
               /\ tasks' = tasks \cup {t}
               /\ t.boardId = pend[p].bid
               /\ t.status = pend[p].data.status
               /\ t.progress = pend[p].data.progress
               /\ resp'.code = 201 /\ resp'.tids = {t.id}

C4_Expected(b, task) ==
    IF b.status = "inprogress" /\ b.progress = PUndefined THEN <<"inprogress", 25>>
    ELSE IF b.status = "done" THEN <<"done", 100>>
    ELSE IF b.status = "todo" THEN <<"todo", 0>>
    ELSE IF /\ b.status = Undefined /\ b.progress.k = "number"
            /\ b.progress.n % 10 = 0 /\ b.progress.n >= 0 /\ b.progress.n <= 1000
            /\ task.status = "inprogress"
         THEN <<Undefined, b.progress.n \div 10>>
    ELSE <<>>

C4_Update ==
    (OwnPut /\ C4_Expected(resp'.body, TaskOf(resp'.tid)) # <<>>) =>
        \E p \in Procs :
            /\ Admitted(p, "puttask_update")
            /\ pend'[p].tid = resp'.tid
            /\ pend'[p].data.status = C4_Expected(resp'.body, TaskOf(resp'.tid))[1]
            /\ pend'[p].data.progress = C4_Expected(resp'.body, TaskOf(resp'.tid))[2]

C4_Write ==
    \A p \in Procs :
        LET d == pend[p].data
            tid == pend[p].tid
        IN (Writes(p, "puttask_update") /\ TaskById(tid) # {}) =>
            /\ resp'.code = 200
            /\ d.status # Undefined =>
                   /\ TaskAfter(tid).status = d.status
                   /\ TaskAfter(tid).progress = d.progress
            /\ (d.status = Undefined /\ d.progress # AbsentProgress) =>
                   /\ TaskAfter(tid).status = TaskOf(tid).status
                   /\ TaskAfter(tid).progress = d.progress

\* C4: every create and every update follows the status lifecycle: todo
\* and 0 when the status is omitted on create, 25 on a move to inprogress
\* without progress, p on a progress update of an inprogress task, 100 on
\* done and 0 on todo.
C4_StatusLifecycle == [][C4_Create /\ C4_Update /\ C4_Write]_vars

\* an update to inprogress with no progress has stored 25
C4_Witness ==
    /\ resp.op = "puttask"
    /\ resp.code = 200
    /\ \E t \in TaskById(resp.tid) : t.status = "inprogress" /\ t.progress = 25

\* C10 as stated: a PUT with a progress and no status on a task read as
\* todo or done goes on to the update without the progress and with every
\* other field of the body.
C10_SuppliesProgress ==
    /\ OwnPut
    /\ resp'.body.status = Undefined
    /\ resp'.body.progress.k # "undefined"
    /\ TaskOf(resp'.tid).status \in {"todo", "done"}

C10_Proceeds ==
    \E p \in Procs :
        LET b == resp'.body
            d == pend'[p].data
        IN /\ Admitted(p, "puttask_update")
           /\ pend'[p].tid = resp'.tid
           /\ pend'[p].note = "progress-ignored"
           /\ d.status = Undefined
           /\ d.progress = AbsentProgress
           /\ d.title = b.title
           /\ d.description = b.description
           /\ d.startDate = IF b.startDate = Undefined THEN Undefined ELSE ToDate(b.startDate)
           /\ d.estimatedFinishDate = IF b.estimatedFinishDate = Undefined THEN Undefined
                                      ELSE ToDate(b.estimatedFinishDate)
           /\ d.reminderDateTime = IF b.reminderDateTime = Undefined THEN Undefined
                                   ELSE ToDate(b.reminderDateTime)

\* C10 as stated: every update that supplies progress without status on a
\* task read as todo or done proceeds with the other fields.
C10_AsStated == [][C10_SuppliesProgress => C10_Proceeds]_vars

\* C10 amended: such a PUT never changes the stored progress or status; with
\* another field and a progress that parses into 0..100 it goes on to write
\* the other fields, without the progress; it is answered 400, and writes
\* nothing, when the progress is its only field or does not parse into 0..100.
C10_OtherFields(b) ==
    \E f \in {b.title, b.description, b.startDate, b.estimatedFinishDate,
               b.reminderDateTime} : f # Undefined

C10_Find ==
    C10_SuppliesProgress =>
        /\ tasks' = tasks
        /\ IF InRange(ParseInt(resp'.body.progress)) /\ C10_OtherFields(resp'.body)
           THEN C10_Proceeds
           ELSE resp'.code = 400 /\ pend' = pend

C10_Update ==
    \A p \in Procs :
        LET d == pend[p].data
            tid == pend[p].tid
        IN (/\ Writes(p, "puttask_update") /\ pend[p].note = "progress-ignored"
            /\ TaskById(tid) # {}) =>
            /\ resp'.code = 200
            /\ TaskAfter(tid).status = TaskOf(tid).status
            /\ TaskAfter(tid).progress = TaskOf(tid).progress
            /\ d.title # Undefined => TaskAfter(tid).title = d.title
            /\ d.description # Undefined => TaskAfter(tid).description = d.description
            /\ d.startDate # Undefined => TaskAfter(tid).startDate = d.startDate
            /\ d.estimatedFinishDate # Undefined =>
                   TaskAfter(tid).estimatedFinishDate = d.estimatedFinishDate
            /\ d.reminderDateTime # Undefined =>
                   TaskAfter(tid).reminderDateTime = d.reminderDateTime
            /\ \A t \in tasks : t.id # tid => t \in tasks'

\* C10 amended: such an update never changes the stored progress or status;
\* it writes the other fields when there are any and the progress is valid,
\* and is answered 400 with nothing written otherwise.
C10_ProgressDropped == [][C10_Find /\ C10_Update]_vars

\* a PUT with a title and a progress has written the title of a task that
\* is todo or done, and not the progress
C10_Witness ==
    /\ resp.op = "puttask"
    /\ resp.code = 200
    /\ resp.err = "progress-ignored"
    /\ \E t \in TaskById(resp.tid) :
           /\ t.status \in {"todo", "done"}
           /\ t.title = "Buy oat milk"
           /\ t.startDate = "Date(2025-02-02)"

(***************************************************************************)
(* Properties of the board and task routes (SpecBoards, SpecGate,          *)
(* SpecCascade).                                                           *)
(***************************************************************************)
BoardRouteOps == {"putboard", "deleteboard"}
BoardTaskOps == {"gettasks", "posttask"}
TaskRouteOps == {"puttask", "deletetask"}
RouteOps == {"getboards", "postboard"} \cup BoardRouteOps \cup BoardTaskOps \cup TaskRouteOps

\* the users other than u who own board bid, before or after the step
OtherOwners(bid, u) ==
    {b.userId : b \in {x \in boards \cup boards' : x.id = bid /\ x.userId # u}}

\* C2: a step of a request of user u leaves every board of another user and
\* every task on such a board in the store, unchanged; creates no board of
\* another user and no task on one; returns no board of another user and
\* no task of one; and a request that names a board or task of another
\* user is answered with an error at its first step.
C2_Frame ==
    resp'.op \in RouteOps =>
        LET u == resp'.uid IN
        /\ \A b \in boards : b.userId # u => b \in boards'
        /\ \A t \in tasks : OtherOwners(t.boardId, u) # {} => t \in tasks'
        /\ \A b \in boards' \ boards : b.userId = u
        /\ \A t \in tasks' \ tasks : OtherOwners(t.boardId, u) = {}
        /\ \A id \in resp'.bids : OtherOwners(id, u) = {}
        /\ \A t \in tasks \cup tasks' : t.id \in resp'.tids => OtherOwners(t.boardId, u) = {}

C2_Refused ==
    (resp'.op \in RouteOps /\ resp'.step = 1 /\ resp'.uid # NoUser) =>
        LET bid == IF resp'.op \in TaskRouteOps /\ TaskById(resp'.tid) # {}
                   THEN TaskOf(resp'.tid).boardId ELSE resp'.bid
        IN (\E b \in BoardById(bid) : b.userId # resp'.uid) =>
               /\ resp'.code \in {400, 403, 404}
               /\ resp'.bids = {} /\ resp'.tids = {}
               /\ UNCHANGED <<users, boards, tasks, ids, pend>>

\* C2: no step of a request of one user returns, creates under, changes or
\* deletes a board or task of another user, and a request aimed at one is
\* answered with an error.
C2_OwnershipIsolation == [][C2_Frame /\ C2_Refused]_vars

\* a user asked to delete a task of another user and was refused
C2_Witness ==
    /\ resp.op = "deletetask"
    /\ resp.code = 403
    /\ \E t \in TaskById(resp.tid) : \E b \in BoardById(t.boardId) : b.userId # resp.uid

\* C3: the step that answers DELETE /api/boards/:boardId with 204 removes
\* that board and exactly the tasks on it; the deletion of a user removes
\* that user, exactly their boards and exactly the tasks on those boards.
C3_BoardDelete ==
    (resp'.op = "deleteboard" /\ resp'.code = 204) =>
        /\ \A t \in tasks' : t.boardId # resp'.bid
        /\ BoardById(resp'.bid) # {}
        /\ boards' = boards \ BoardById(resp'.bid)
        /\ tasks' = {t \in tasks : t.boardId # resp'.bid}
        /\ users' = users

C3_UserDelete ==
    resp'.op = "deleteuser" =>
        LET mine == {b \in boards : b.userId = resp'.uid} IN
        /\ users' = {u \in users : u.id # resp'.uid}
        /\ boards' = boards \ mine
        /\ tasks' = {t \in tasks : \A b \in mine : t.boardId # b.id}

\* C3: a successful DELETE of a board leaves no task of that board, the
\* deletion of a user leaves none of their boards or tasks, and both leave
\* every other board and task untouched.
C3_CascadeDelete == [][C3_BoardDelete /\ C3_UserDelete]_vars

\* a board was deleted with the one task on it; the task of the other
\* board is still there
C3_Witness ==
    /\ resp.op = "deleteboard"
    /\ resp.code = 204
    /\ ids.task = 3
    /\ Cardinality(tasks) = 1
    /\ users = {Alice, Bob}
    /\ \A t \in tasks : BoardById(t.boardId) # {}

\* C6: a request without a token is answered 401 and one whose token has a
\* wrong signature or has expired 403, and neither changes the store or
\* starts a handler; a handler runs, and answers, only as the user of a
\* token signed with JWT_SECRET that has not expired.
C6_Signed(h) == h.kind = "bearer" /\ h.token.key = JWT_SECRET /\ now < h.token.exp

C6_FirstStep ==
    (resp'.op \in RouteOps /\ resp'.step = 1) =>
        LET h == resp'.header IN
        /\ h.kind # "bearer" => resp'.code = 401
        /\ (h.kind = "bearer" /\ ~C6_Signed(h)) => resp'.code = 403
        /\ ~C6_Signed(h) =>
               /\ UNCHANGED <<users, boards, tasks, ids, pend>>
               /\ resp'.uid = NoUser /\ resp'.bids = {} /\ resp'.tids = {}
        /\ C6_Signed(h) =>
               /\ resp'.code \notin {401, 403} \/ pend' = pend
               /\ resp'.uid = h.token.userId
               /\ \A p \in Procs : pend'[p] # pend[p] => pend'[p].uid = h.token.userId

C6_LaterStep ==
    (resp'.op \in RouteOps /\ resp'.step = 2) =>
        \E p \in Procs : /\ pend[p].pc # "idle" /\ pend'[p].pc = "idle"
                         /\ resp'.uid = pend[p].uid
                         /\ \E u \in users : u.id = pend[p].uid

\* C6: without a bearer token the answer is 401, with a token that is not
\* validly signed or has expired 403, in both cases with the store and the
\* handlers untouched; handlers run only as the user of a valid token.
C6_AuthenticationGate == [][C6_FirstStep /\ C6_LaterStep]_vars

\* an expired token of the owner of a board was refused
C6_Witness ==
    /\ resp.op \in RouteOps
    /\ resp.code = 403
    /\ resp.header.kind = "bearer"
    /\ resp.header.token.key = JWT_SECRET
    /\ now >= resp.header.token.exp
    /\ \E b \in boards : b.userId = resp.header.token.userId

\* C7 as stated: at its first step, PUT or DELETE of a board that is missing
\* or owned by another user is answered 404; GET or POST of the tasks of a
\* board, and PUT or DELETE of a task, are answered 403 when the board or
\* task is of another user and 404 exactly when it does not exist.
C7_Target ==
    IF resp.op \in TaskRouteOps
    THEN IF TaskById(resp.tid) = {} THEN "missing"
         ELSE IF BoardById(TaskOf(resp.tid).boardId) = {} THEN "orphan"
         ELSE IF BoardOwned(TaskOf(resp.tid).boardId, resp.uid) THEN "own" ELSE "other"
    ELSE IF BoardById(resp.bid) = {} THEN "missing"
         ELSE IF BoardOwned(resp.bid, resp.uid) THEN "own" ELSE "other"

C7_Codes ==
    /\ resp.op \in BoardRouteOps =>
           (C7_Target \in {"missing", "other"} => resp.code = 404)
    /\ resp.op \in BoardTaskOps \cup TaskRouteOps =>
           /\ C7_Target = "other" => resp.code = 403
           /\ C7_Target = "missing" => resp.code = 404
           /\ resp.code = 404 => C7_Target = "missing"

\* a request that passed the gate and was answered, or went on, at its first step
C7_Checked == resp.step = 1 /\ resp.uid # NoUser

\* C7 as stated: every request that passed the gate is answered 404 or 403
\* at its first step by the ownership rules above, whatever its body.
C7_AsStated == C7_Checked => C7_Codes

\* C7 amended: the same, for a request whose body passes the validation of
\* its route; a body that does not is answered 400 before the lookup,
\* whoever owns the board or task and whether or not it exists.
C7_BodyValid ==
    IF resp.op = "putboard" THEN resp.name # Undefined
    ELSE IF resp.op = "posttask"
    THEN /\ ~Falsy(resp.body.title)
         /\ Falsy(resp.body.status) \/ resp.body.status \in ValidStatuses
    ELSE IF resp.op = "puttask"
    THEN /\ resp.body.status \in ValidStatuses \cup {Undefined}
         /\ (resp.body.status = Undefined /\ resp.body.progress.k # "undefined") =>
                InRange(ParseInt(resp.body.progress))
         /\ \/ resp.body.status # Undefined
            \/ resp.body.progress.k # "undefined"
            \/ C10_OtherFields(resp.body)
    ELSE TRUE

\* C7 amended: a request that passed the gate is answered by the ownership
\* rules when its body is valid for its route, and 400 when it is not.
C7_OwnershipErrors ==
    C7_Checked => IF C7_BodyValid THEN C7_Codes
                  ELSE resp.code = 400

\* PUT of a board of another user, with a name, was answered 404
C7_Witness ==
    /\ resp.op = "putboard"
    /\ resp.step = 1
    /\ resp.name = "Work"
    /\ resp.code = 404
    /\ \E b \in BoardById(resp.bid) : b.userId # resp.uid

\* C11: in every reachable state every task's boardId names a stored board
\* and every board's userId names a stored user.
C11_ReferentialIntegrity ==
    /\ \A t \in tasks : BoardById(t.boardId) # {}
    /\ \A b \in boards : \E u \in users : u.id = b.userId
====
